---- MODULE Spec2Model ----
(***************************************************************************)
(* A model of the LLM document processing system: the browser client       *)
(* (src/app/page.tsx, component LLMSystem) and the query endpoint          *)
(* (src/app/api/process-document/route.ts, handler POST).                  *)
(*                                                                         *)
(* Strings.  A JavaScript string is modelled as a sequence of chunks.  A   *)
(* chunk is one of the whitespace characters " ", "\n", "\t", one of the   *)
(* characters JSON gives a meaning to, or a piece of text that neither     *)
(* starts nor ends with whitespace.  Concatenation is \o, the empty        *)
(* string is << >>.                                                        *)
(*                                                                         *)
(* Values.  A JavaScript value that is serialized or parsed is a tagged    *)
(* record: JStr, JNum, JNull, JBool, JArr, JObj, and JUndefined for the    *)
(* value of a property that is not there.                                  *)
(***************************************************************************)
EXTENDS Integers, Sequences, FiniteSets, TLC

(***************************************************************************)
(* Bounds of the model.                                                    *)
(***************************************************************************)
MaxDocs == 2      \* documents stored or being uploaded
MaxCalls == 2     \* processQuery calls in one behaviour of QuerySpec
MaxStored == 1    \* processQuery calls in one behaviour of StorageSpec

(***************************************************************************)
(* Strings                                                                 *)
(***************************************************************************)
Whitespace == {" ", "\n", "\t"}

RECURSIVE TrimStart(_)
TrimStart(s) ==
  IF s # << >> /\ Head(s) \in Whitespace THEN TrimStart(Tail(s)) ELSE s

RECURSIVE TrimEnd(_)
TrimEnd(s) ==
  IF s # << >> /\ s[Len(s)] \in Whitespace
  THEN TrimEnd(SubSeq(s, 1, Len(s) - 1))
  ELSE s

\* String.prototype.trim
Trim(s) == TrimEnd(TrimStart(s))

\* Array.prototype.join: the strings of parts with sep between them
RECURSIVE Join(_, _)
Join(parts, sep) ==
  IF parts = << >> THEN << >>
  ELSE IF Len(parts) = 1 THEN parts[1]
  ELSE parts[1] \o sep \o Join(Tail(parts), sep)

\* the decimal digits of a small natural number, as a one-chunk string
NumStr(n) == << ToString(n) >>

(***************************************************************************)
(* JavaScript values                                                       *)
(***************************************************************************)
JStr(s) == [k |-> "str", s |-> s]
JNum(lit) == [k |-> "num", lit |-> lit]
JBool(b) == [k |-> "bool", b |-> b]
JNull == [k |-> "null"]
JUndefined == [k |-> "undefined"]
JArr(items) == [k |-> "arr", items |-> items]
JObj(members) == [k |-> "obj", members |-> members]

\* the number literals the model uses
NumberLits == {"0", "1", "2", "3", "5", "20", "24", "69", "35", "0.8", "0.95"}

\* value.name: the property of an object, undefined when it has none.
\* Reading a property of null or undefined throws (PropThrows, below);
\* reading one of any other primitive gives undefined.
RECURSIVE Lookup(_, _)
Lookup(members, name) ==
  IF members = << >> THEN JUndefined
  ELSE IF members[Len(members)][1] = name THEN members[Len(members)][2]
  ELSE Lookup(SubSeq(members, 1, Len(members) - 1), name)

Prop(v, name) == IF v.k = "obj" THEN Lookup(v.members, name) ELSE JUndefined

PropThrows(v) == v.k \in {"null", "undefined"}

\* JavaScript truthiness of the values the model uses
Truthy(v) ==
  CASE v.k = "str" -> v.s # << >>
    [] v.k = "num" -> v.lit # "0"
    [] v.k = "bool" -> v.b
    [] v.k \in {"null", "undefined"} -> FALSE
    [] OTHER -> TRUE

(***************************************************************************)
(* JSON.stringify                                                          *)
(***************************************************************************)
\* Inside a string literal a quote, a backslash and a control character
\* are written as escape sequences.  An escape sequence is one chunk; the
\* table also gives the escapes of the escape sequences themselves, which
\* occur when a JSON text is the content of a string of another JSON text.
EscapeTable ==
  [c \in {"\"", "\\", "\n", "\t", "\\\"", "\\\\", "\\n", "\\t"} |->
     CASE c = "\"" -> "\\\""
       [] c = "\\" -> "\\\\"
       [] c = "\n" -> "\\n"
       [] c = "\t" -> "\\t"
       [] c = "\\\"" -> "\\\\\\\""
       [] c = "\\\\" -> "\\\\\\\\"
       [] c = "\\n" -> "\\\\n"
       [] c = "\\t" -> "\\\\t"]

EscapeChunk(c) == IF c \in DOMAIN EscapeTable THEN EscapeTable[c] ELSE c

Escape(s) == [i \in 1..Len(s) |-> EscapeChunk(s[i])]

Quote(s) == << "\"" >> \o Escape(s) \o << "\"" >>

RECURSIVE Stringify(_)
RECURSIVE StringifyItems(_)
RECURSIVE StringifyMembers(_)

\* an undefined array element is written as null
StringifyItems(items) ==
  IF items = << >> THEN << >>
  ELSE (IF Head(items).k = "undefined" THEN << "null" >> ELSE Stringify(Head(items)))
       \o (IF Len(items) > 1 THEN << "," >> ELSE << >>)
       \o StringifyItems(Tail(items))

\* a member whose value is undefined is left out
RECURSIVE Defined(_)
Defined(members) ==
  IF members = << >> THEN << >>
  ELSE (IF Head(members)[2].k = "undefined" THEN << >> ELSE << Head(members) >>)
       \o Defined(Tail(members))

StringifyMembers(members) ==
  IF members = << >> THEN << >>
  ELSE Quote(Head(members)[1]) \o << ":" >> \o Stringify(Head(members)[2])
       \o (IF Len(members) > 1 THEN << "," >> ELSE << >>)
       \o StringifyMembers(Tail(members))

Stringify(v) ==
  CASE v.k = "str" -> Quote(v.s)
    [] v.k = "num" -> << v.lit >>
    [] v.k = "bool" -> << IF v.b THEN "true" ELSE "false" >>
    [] v.k = "null" -> << "null" >>
    [] v.k = "arr" -> << "[" >> \o StringifyItems(v.items) \o << "]" >>
    [] v.k = "obj" -> << "{" >> \o StringifyMembers(Defined(v.members)) \o << "}" >>

(***************************************************************************)
(* JSON.parse: a result [ok, v, i]; ok = FALSE is the SyntaxError it       *)
(* throws, v the value read and i the position after it.                   *)
(***************************************************************************)
ParseFail == [ok |-> FALSE, v |-> JNull, i |-> 0]
Parsed(v, i) == [ok |-> TRUE, v |-> v, i |-> i]

\* the first position from i on that holds no whitespace
RECURSIVE SkipWs(_, _)
SkipWs(t, i) == IF i <= Len(t) /\ t[i] \in Whitespace THEN SkipWs(t, i + 1) ELSE i

\* what a chunk inside a string literal stands for: the character an escape
\* sequence names, or the chunk itself
UnescapeTable ==
  [c \in {EscapeTable[d] : d \in DOMAIN EscapeTable} |->
     CHOOSE d \in DOMAIN EscapeTable : EscapeTable[d] = c]

UnescapeChunk(c) == IF c \in DOMAIN UnescapeTable THEN UnescapeTable[c] ELSE c

\* the position of the quote that closes the string literal entered before
\* position i, 0 when there is none or when a raw control character or a
\* backslash that starts no escape sequence comes first
RECURSIVE ClosingQuote(_, _)
ClosingQuote(t, i) ==
  IF i > Len(t) \/ t[i] \in {"\n", "\t", "\\"} THEN 0
  ELSE IF t[i] = "\"" THEN i
  ELSE ClosingQuote(t, i + 1)

\* the characters of a string literal, from position i (after the opening
\* quote) to its closing quote
ScanString(t, i) ==
  LET end == ClosingQuote(t, i) IN
  IF end = 0 THEN ParseFail
  ELSE Parsed([j \in 1..(end - i) |-> UnescapeChunk(t[i + j - 1])], end + 1)

RECURSIVE ParseValue(_, _)
RECURSIVE ParseItems(_, _, _)
RECURSIVE ParseMembers(_, _, _)

\* after "[" or ",": an item, then "," or "]"
ParseItems(t, i, acc) ==
  LET r == ParseValue(t, i) IN
  IF ~r.ok THEN ParseFail
  ELSE LET j == SkipWs(t, r.i) IN
       IF j > Len(t) THEN ParseFail
       ELSE IF t[j] = "]" THEN Parsed(JArr(Append(acc, r.v)), j + 1)
       ELSE IF t[j] = "," THEN ParseItems(t, j + 1, Append(acc, r.v))
       ELSE ParseFail

\* after "{" or ",": a key, ":", a value, then "," or "}"
ParseMembers(t, i, acc) ==
  LET a == SkipWs(t, i) IN
  IF a > Len(t) \/ t[a] # "\"" THEN ParseFail
  ELSE LET key == ScanString(t, a + 1) IN
       IF ~key.ok THEN ParseFail
       ELSE LET c == SkipWs(t, key.i) IN
            IF c > Len(t) \/ t[c] # ":" THEN ParseFail
            ELSE LET r == ParseValue(t, c + 1) IN
                 IF ~r.ok THEN ParseFail
                 ELSE LET j == SkipWs(t, r.i)
                          more == Append(acc, << key.v, r.v >>) IN
                      IF j > Len(t) THEN ParseFail
                      ELSE IF t[j] = "}" THEN Parsed(JObj(more), j + 1)
                      ELSE IF t[j] = "," THEN ParseMembers(t, j + 1, more)
                      ELSE ParseFail

ParseValue(t, i0) ==
  LET i == SkipWs(t, i0) IN
  IF i > Len(t) THEN ParseFail
  ELSE LET c == t[i] IN
       CASE c = "\"" ->
              (LET s == ScanString(t, i + 1) IN
               IF s.ok THEN Parsed(JStr(s.v), s.i) ELSE ParseFail)
         [] c = "{" ->
              (LET j == SkipWs(t, i + 1) IN
               IF j <= Len(t) /\ t[j] = "}" THEN Parsed(JObj(<< >>), j + 1)
               ELSE ParseMembers(t, i + 1, << >>))
         [] c = "[" ->
              (LET j == SkipWs(t, i + 1) IN
               IF j <= Len(t) /\ t[j] = "]" THEN Parsed(JArr(<< >>), j + 1)
               ELSE ParseItems(t, i + 1, << >>))
         [] c = "null" -> Parsed(JNull, i + 1)
         [] c = "true" -> Parsed(JBool(TRUE), i + 1)
         [] c = "false" -> Parsed(JBool(FALSE), i + 1)
         [] c \in NumberLits -> Parsed(JNum(c), i + 1)
         [] OTHER -> ParseFail

\* JSON.parse(t): [ok, v]; the whole text must be one value
JSONparse(t) ==
  LET r == ParseValue(t, 1) IN
  IF r.ok /\ SkipWs(t, r.i) > Len(t) THEN [ok |-> TRUE, v |-> r.v]
  ELSE [ok |-> FALSE, v |-> JUndefined]

(***************************************************************************)
(* The query endpoint: route.ts                                            *)
(***************************************************************************)
\* the fixed system instruction, one chunk
systemPrompt == << "You are a powerful Document Reasoning Engine ... Always return valid JSON format." >>

maxTokens == 2000

\* `${v}` in a template literal
TemplateString(v) ==
  CASE v.k = "str" -> v.s
    [] v.k = "num" -> << v.lit >>
    [] v.k = "bool" -> << IF v.b THEN "true" ELSE "false" >>
    [] v.k = "null" -> << "null" >>
    [] v.k = "undefined" -> << "undefined" >>
    [] OTHER -> << "[object Object]" >>

\* the user instruction built from the two fields
Prompt(query, documents) ==
  << "\n", "User Query:", " " >> \o TemplateString(query)
  \o << "\n", "\n", "Available Documents:", "\n" >> \o TemplateString(documents)
  \o << "\n", "\n", "Please analyze the query against the provided documents and return a structured JSON response following the specified format. Focus on insurance policy analysis, coverage decisions, and clause-based reasoning.", "\n" >>

\* NextResponse.json(value, {status})
NextResponseJson(value, status) == [status |-> status, body |-> Stringify(value)]

ErrorBody(message) == JObj(<< << << "error" >>, JStr(message) >> >>)

\* an envelope with the generated text trimmed
TrimmedEnvelope(text) == JObj(<< << << "text" >>, JStr(Trim(text)) >> >>)

\* { text }: the envelope of the generated text
TextEnvelope(text) == JObj(<< << << "text" >>, JStr(text) >> >>)

\* what generateText does for one call: it returns a text or throws
UpstreamText(t) == [kind |-> "text", text |-> t]
UpstreamThrows(cause) == [kind |-> "throws", cause |-> cause]

\* a catch block whose answer names the cause
ServerErrorNamingCause(cause, invoked) ==
  [response |-> NextResponseJson(ErrorBody(<< cause >>), 500),
   invoked |-> invoked,
   logged |-> << cause >>]

\* The catch block of POST: the cause is logged, the answer is generic.
ServerError(cause, invoked) ==
  [response |-> NextResponseJson(
                  ErrorBody(<< "Failed to process document. Please try again." >>), 500),
   invoked |-> invoked,
   logged |-> << cause >>]

\* a handler that calls generateText a second time when the first call throws
RespondRetrying(query, documents, upstream) ==
  IF ~Truthy(query) \/ ~Truthy(documents)
  THEN [response |-> NextResponseJson(
                       ErrorBody(<< "Query and documents are required" >>), 400),
        invoked |-> << >>,
        logged |-> << >>]
  ELSE
    LET call == [model |-> "grok-3",
                 system |-> systemPrompt,
                 prompt |-> Prompt(query, documents),
                 maxTokens |-> maxTokens] IN
    IF upstream.kind = "throws" THEN ServerError(upstream.cause, << call, call >>)
    ELSE [response |-> NextResponseJson(TextEnvelope(upstream.text), 200),
          invoked |-> << call >>,
          logged |-> << >>]

\* The rest of POST once the two fields are read: the test of the fields,
\* the call of generateText, the answer.  The result is the response, the
\* generateText calls made, and what console.error logged.
Respond(query, documents, upstream) ==
  IF ~Truthy(query) \/ ~Truthy(documents)
  THEN [response |-> NextResponseJson(
                       ErrorBody(<< "Query and documents are required" >>), 400),
        invoked |-> << >>,
        logged |-> << >>]
  ELSE
    LET call == [model |-> "grok-3",
                 system |-> systemPrompt,
                 prompt |-> Prompt(query, documents),
                 maxTokens |-> maxTokens] IN
    IF upstream.kind = "throws" THEN ServerError(upstream.cause, << call >>)
    ELSE [response |-> NextResponseJson(TextEnvelope(upstream.text), 200),
          invoked |-> << call >>,
          logged |-> << >>]

\* const { query, documents } = json, for the outcome `json` of req.json()
Destructure(json, upstream) ==
  IF ~json.ok THEN ServerError("SyntaxError", << >>)          \* req.json() rejects
  ELSE IF PropThrows(json.v) THEN ServerError("TypeError", << >>)  \* destructuring null
  ELSE Respond(Prop(json.v, << "query" >>), Prop(json.v, << "documents" >>), upstream)

\* POST(req) for a request with the raw body `body`, when generateText, if
\* it is called, behaves as `upstream` says
POST(body, upstream) == Destructure(JSONparse(body), upstream)

(***************************************************************************)
(* The client: page.tsx, component LLMSystem                               *)
(***************************************************************************)
VARIABLES
  storedDocuments,   \* useState: the document list
  queryHistory,      \* useState: the query result records, newest first
  currentQuery,      \* useState: the text of the query input
  isProcessing,      \* useState
  currentResult,     \* useState: a query result record, or Null
  activeTab,         \* useState
  uploadProgress,    \* useState: file id -> percent
  localStorage,      \* key -> Item(the stored string), or NoItem
  toast,             \* the title of the notification shown last
  calls,             \* the processQuery calls: one entry per call so far
  uploads,           \* the handleFileUpload calls that have not finished
  now,               \* Date.now()
  mounted,           \* the component is on the page: no render of it has thrown
  exchange,          \* the endpoint's last exchange with a caller of its own
  selectedDocument   \* useState: the document open in the viewer, or Null

clientVars == << storedDocuments, queryHistory, currentQuery, isProcessing,
                 currentResult, activeTab, uploadProgress, localStorage,
                 toast, calls, uploads, now, mounted, selectedDocument >>
vars == << storedDocuments, queryHistory, currentQuery, isProcessing,
           currentResult, activeTab, uploadProgress, localStorage,
           toast, calls, uploads, now, mounted, exchange, selectedDocument >>

\* what a slot of localStorage holds: nothing (getItem gives null), or a string
NoItem == [present |-> FALSE]
Item(value) == [present |-> TRUE, value |-> value]
Settled == [pc |-> "settled"]
NoExchange == [made |-> FALSE]

DocumentsKey == "llm-documents"
HistoryKey == "llm-history"

\* new Date(t).toISOString()
IsoString(t) == << "2025-01-01T00:00:00.00", ToString(t), "Z" >>

(***************************************************************************)
(* Inputs: the files a user uploads, the queries a user enters, what the   *)
(* model generates, what the network does to a request.                    *)
(***************************************************************************)
PolicyFile ==
  [name |-> << "policy.txt" >>, type |-> << "text/plain" >>, size |-> 35,
   bytes |-> << "Knee surgery covered after 2 years." >>, readable |-> TRUE]
QuotedFile ==
  [name |-> << "terms \"A\".eml" >>, type |-> << >>, size |-> 24,
   bytes |-> << "Clause", " ", "\"", "4.2", "\"", "\n", "waiting period" >>,
   readable |-> TRUE]
\* a file of no bytes
EmptyFile ==
  [name |-> << "empty.txt" >>, type |-> << "text/plain" >>, size |-> 0,
   bytes |-> << >>, readable |-> TRUE]
\* an entry the FileReader cannot read (a dropped folder, a file deleted
\* after it was selected): readAsText ends with the error event
DroppedFolder ==
  [name |-> << "scans" >>, type |-> << >>, size |-> 0,
   bytes |-> << >>, readable |-> FALSE]
Files == {PolicyFile, QuotedFile, EmptyFile, DroppedFolder}

\* the text after Math.random().toString(36).substr(2, 9)
RandomIds == {"k3x9q2m1z", "p7w4c8t5b"}

\* Math.floor(Math.random() * 50) + 20 and Math.floor(Math.random() * 20) + 5
Placeholders == { << 20, 5 >>, << 69, 24 >> }

KneeQuery == << "46-year-old male, knee surgery, 3-month policy" >>
Queries == { << >>, << " ", "\n" >>, << " " >> \o KneeQuery \o << "\n" >> }

\* the payloads of the model's documented output shape
ApprovedPayload ==
  JObj(<< << << "Decision" >>, JStr(<< "Rejected" >>) >>,
          << << "Amount" >>, JStr(<< "0" >>) >>,
          << << "Justification" >>, JStr(<< "Waiting period of", " ", "\"", "2 years", "\"", " ", "not met." >>) >>,
          << << "Clause_References" >>,
             JArr(<< JObj(<< << << "Document" >>, JStr(<< "policy.txt" >>) >>,
                             << << "Clause_Snippet" >>, JStr(<< "Knee surgery covered after 2 years." >>) >>,
                             << << "Page" >>, JStr(<< "1" >>) >>,
                             << << "Matched_Concept" >>, JStr(<< "waiting period" >>) >> >>) >>) >>,
          << << "Confidence" >>, JNum("0.95") >> >>)
ClarificationPayload ==
  JObj(<< << << "Decision" >>, JStr(<< "Needs Clarification" >>) >>,
          << << "Missing" >>, JArr(<< JStr(<< "Policy Provider" >>) >>) >>,
          << << "Suggested_Follow_up" >>, JStr(<< "Please confirm the provider." >>) >> >>)
DocumentedPayloads == {ApprovedPayload, ClarificationPayload}

\* texts the model may generate: a documented payload, compact or laid out
\* over lines; JSON of another kind; a payload cut off by the token budget;
\* prose; nothing
PayloadTexts ==
  {Stringify(ApprovedPayload),
   << "\n" >> \o Stringify(ApprovedPayload) \o << "\n" >>,
   Stringify(ClarificationPayload)}
OtherJsonTexts == { << "null" >>, << "[", "]" >> }
NotJsonTexts ==
  {SubSeq(Stringify(ApprovedPayload), 1, 12),
   << "The claim is", " ", "\"", "rejected", "\"", "." >>,
   << >>}
ModelTexts == PayloadTexts \cup OtherJsonTexts \cup NotJsonTexts

Causes == {"rate limit exceeded", "missing API key"}

Upstreams == {UpstreamText(t) : t \in ModelTexts} \cup {UpstreamThrows(c) : c \in Causes}

\* the behaviours of generateText the whole system is explored with
ServedUpstreams ==
  {UpstreamText(t) : t \in { << "\n" >> \o Stringify(ApprovedPayload) \o << "\n" >>,
                             Stringify(ClarificationPayload),
                             << "null" >>,
                             << "The claim is", " ", "\"", "rejected", "\"", "." >>,
                             << >> }}
  \cup {UpstreamThrows("rate limit exceeded")}

\* What fetch gives the client when it is not the endpoint's answer: the
\* promise rejects, or a response arrives that something between the two
\* produced (a gateway's error page, a body cut short, an empty object).
FetchRejects == [kind |-> "rejects"]
FetchResponse(r) == [kind |-> "response", status |-> r.status, body |-> r.body]
ForeignOutcomes ==
  {FetchRejects,
   FetchResponse([status |-> 502, body |-> << "<html>", "Bad Gateway", "</html>" >>]),
   FetchResponse([status |-> 200, body |-> << "{", "\"", "text", "\"", ":" >>]),
   FetchResponse([status |-> 200, body |-> << "{", "}" >>])}

(***************************************************************************)
(* Documents and query result records are JavaScript objects.              *)
(***************************************************************************)
Field(v, name) == Prop(v, << name >>)

\* a removal that drops the first document whatever its id
WithoutFirst(documents, id) == Tail(documents)

\* prev.filter(doc => doc.id !== id)
RECURSIVE WithoutId(_, _)
WithoutId(documents, id) ==
  IF documents = << >> THEN << >>
  ELSE (IF Field(Head(documents), "id") # id THEN << Head(documents) >> ELSE << >>)
       \o WithoutId(Tail(documents), id)

\* formatFileSize, for the sizes below 1024 that the files of the model have
formatFileSize(bytes) ==
  IF bytes = 0 THEN << "0 Bytes" >> ELSE << ToString(bytes), " ", "Bytes" >>

\* FileReader.readAsText: the UTF-8 decoding of the bytes; a byte sequence
\* that is not UTF-8 decodes to the replacement character
Decode(bytes) == [i \in 1..Len(bytes) |-> IF bytes[i] = "0xFF" THEN "U+FFFD" ELSE bytes[i]]

extractTextFromFile(file) ==
  LET content == Decode(file.bytes) IN
  IF content # << >> THEN content
  ELSE << "[" >> \o file.type \o << "]", " " >> \o file.name
       \o << " ", "-", " ", "Content extracted" >>

\* the id processDocument gives a file: `doc_${Date.now()}_${random}`
FileId(t, random) == << "doc_", ToString(t), "_", random >>

\* the record processDocument builds for a file that got the id fileId at
\* startTime, when it finishes at time t and draws the two counts `counts`
processDocument(file, fileId, startTime, t, counts) ==
  JObj(<< << << "id" >>, JStr(fileId) >>,
          << << "name" >>, JStr(file.name) >>,
          << << "content" >>, JStr(extractTextFromFile(file)) >>,
          << << "chunks" >>, JNum(ToString(counts[1])) >>,
          << << "clauses" >>, JNum(ToString(counts[2])) >>,
          << << "size" >>, JStr(formatFileSize(file.size)) >>,
          << << "processTime" >>, JStr(<< ToString(t - startTime), ".0", "s" >>) >>,
          << << "status" >>, JStr(<< "stored" >>) >>,
          << << "uploadDate" >>, JStr(IsoString(t)) >>,
          << << "type" >>, JStr(IF file.type # << >> THEN file.type ELSE << "text/plain" >>) >> >>)

\* localStorage.setItem / removeItem / getItem
SetItem(store, key, value) == [store EXCEPT ![key] = Item(value)]
RemoveItem(store, key) == [store EXCEPT ![key] = NoItem]

(***************************************************************************)
(* The effects of a render.  A handler that sets storedDocuments or        *)
(* queryHistory causes a render, and the render's effects run before any   *)
(* other handler does: they are part of the handler's step.  `changed`     *)
(* holds the keys of the lists the handler has set.                        *)
(***************************************************************************)
\* effects that save the document list and never the history
SaveDocumentsOnly(changed, store, documents, history) ==
  IF DocumentsKey \in changed
  THEN SetItem(store, DocumentsKey, Stringify(JArr(documents)))
  ELSE store

\* useEffect(..., [storedDocuments]) and useEffect(..., [queryHistory])
SaveEffects(changed, store, documents, history) ==
  LET s1 == IF DocumentsKey \in changed
            THEN SetItem(store, DocumentsKey, Stringify(JArr(documents)))
            ELSE store
  IN IF HistoryKey \in changed
     THEN SetItem(s1, HistoryKey, Stringify(JArr(history)))
     ELSE s1

(***************************************************************************)
(* Time                                                                    *)
(***************************************************************************)
\* the values of Date.now() in a behaviour
Instants == {0, 1}

Tick ==
  /\ now + 1 \in Instants
  /\ now' = now + 1
  /\ UNCHANGED << storedDocuments, queryHistory, currentQuery, isProcessing,
                  currentResult, activeTab, uploadProgress, localStorage,
                  toast, calls, uploads, mounted, exchange, selectedDocument >>

(***************************************************************************)
(* Upload                                                                  *)
(***************************************************************************)
\* the batches of files a user selects or drops
Batches == {<< f >> : f \in Files} \cup {<< PolicyFile, QuotedFile >>}

\* the files of the uploads that have not finished
RECURSIVE PendingFiles(_)
PendingFiles(us) == IF us = << >> THEN 0 ELSE Len(Head(us).files) + PendingFiles(Tail(us))

\* a batch the exploration has room for
HasRoom(files) == Len(storedDocuments) + PendingFiles(uploads) + Len(files) <= MaxDocs

\* handleFileUpload(files), up to the await: every processDocument call
\* takes its id and enters it in uploadProgress
UploadStart(files, randoms) ==
  /\ mounted
  /\ LET ids == [i \in 1..Len(files) |-> FileId(now, randoms[i])] IN
     /\ uploads' = Append(uploads, [files |-> files, ids |-> ids, startTime |-> now,
                                     failed |-> FALSE])
     /\ uploadProgress' = [id \in DOMAIN uploadProgress \cup {ids[i] : i \in 1..Len(ids)} |-> 0]
  /\ UNCHANGED << storedDocuments, queryHistory, currentQuery, isProcessing,
                  currentResult, activeTab, localStorage, toast,
                  calls, now, mounted, exchange, selectedDocument >>

\* extractTextFromFile sets reader.onload and nothing else: when the read of
\* a file ends with the error event, no handler runs, the file's promise
\* stays pending, and with it Promise.all and handleFileUpload
ReadError(b) ==
  /\ b \in 1..Len(uploads)
  /\ ~uploads[b].failed
  /\ \E i \in 1..Len(uploads[b].files) : ~uploads[b].files[i].readable
  /\ uploads' = [uploads EXCEPT ![b].failed = TRUE]
  /\ UNCHANGED << storedDocuments, queryHistory, currentQuery, isProcessing,
                  currentResult, activeTab, uploadProgress, localStorage,
                  toast, calls, now, mounted, exchange, selectedDocument >>

\* a handleFileUpload that sets the list from the list it saw when it was
\* called, here the empty list: setStoredDocuments([...processedDocs])
UploadCompleteReplacing(b, counts) ==
  /\ b \in 1..Len(uploads)
  /\ \A i \in 1..Len(uploads[b].files) : uploads[b].files[i].readable
  /\ LET u == uploads[b]
         processedDocs == [i \in 1..Len(u.files) |->
                             processDocument(u.files[i], u.ids[i], u.startTime, now, counts[i])]
         done == {u.ids[i] : i \in 1..Len(u.ids)}
     IN /\ uploads' = [i \in 1..(Len(uploads) - 1) |->
                         IF i < b THEN uploads[i] ELSE uploads[i + 1]]
        /\ IF mounted
           THEN /\ storedDocuments' = processedDocs
                /\ uploadProgress' = [id \in DOMAIN uploadProgress \ done |->
                                        uploadProgress[id]]
                /\ localStorage' = SaveEffects({DocumentsKey}, localStorage,
                                               processedDocs, queryHistory)
           ELSE UNCHANGED << storedDocuments, uploadProgress, localStorage >>
  /\ toast' = "Documents uploaded successfully"
  /\ UNCHANGED << queryHistory, currentQuery, isProcessing, currentResult,
                  activeTab, calls, now, mounted, exchange, selectedDocument >>

\* handleFileUpload, after Promise.all has resolved: the documents are
\* built, their progress entries deleted, and the batch is appended
UploadComplete(b, counts) ==
  /\ b \in 1..Len(uploads)
  /\ \A i \in 1..Len(uploads[b].files) : uploads[b].files[i].readable
  /\ LET u == uploads[b]
         processedDocs == [i \in 1..Len(u.files) |->
                             processDocument(u.files[i], u.ids[i], u.startTime, now, counts[i])]
         done == {u.ids[i] : i \in 1..Len(u.ids)}
     IN /\ uploads' = [i \in 1..(Len(uploads) - 1) |->
                         IF i < b THEN uploads[i] ELSE uploads[i + 1]]
        /\ IF mounted
           THEN /\ storedDocuments' = storedDocuments \o processedDocs
                /\ uploadProgress' = [id \in DOMAIN uploadProgress \ done |->
                                        uploadProgress[id]]
                /\ localStorage' = SaveEffects({DocumentsKey}, localStorage,
                                               storedDocuments \o processedDocs,
                                               queryHistory)
           ELSE UNCHANGED << storedDocuments, uploadProgress, localStorage >>
  /\ toast' = "Documents uploaded successfully"
  /\ UNCHANGED << queryHistory, currentQuery, isProcessing, currentResult,
                  activeTab, calls, now, mounted, exchange, selectedDocument >>

(***************************************************************************)
(* Query                                                                   *)
(***************************************************************************)
\* the Textarea's onChange and the sample query buttons
setCurrentQuery(q) ==
  /\ mounted
  /\ q # currentQuery
  /\ currentQuery' = q
  /\ UNCHANGED << storedDocuments, queryHistory, isProcessing, currentResult,
                  activeTab, uploadProgress, localStorage, toast,
                  calls, uploads, now, mounted, exchange, selectedDocument >>

\* a guard that tests the query text without trimming it
GuardRejectsUntrimmed(query, documents) == query = << >> \/ Len(documents) = 0

\* a guard that tests the document list and not the query
GuardChecksDocumentsOnly(query, documents) == Len(documents) = 0

\* the guard of processQuery
GuardRejects(query, documents) == Trim(query) = << >> \/ Len(documents) = 0

\* the documents block of the request
DocumentBlock(doc) ==
  << "Document:", " " >> \o TemplateString(Field(doc, "name"))
  \o << "\n" >> \o TemplateString(Field(doc, "content"))

documentsContent(documents) ==
  Join([i \in 1..Len(documents) |-> DocumentBlock(documents[i])], << "\n", "\n" >>)

\* a request body with the query trimmed
RequestBodyTrimmed(query, documents) ==
  Stringify(JObj(<< << << "query" >>, JStr(Trim(query)) >>,
                    << << "documents" >>, JStr(documentsContent(documents)) >> >>))

\* the body of the request processQuery sends
RequestBody(query, documents) ==
  Stringify(JObj(<< << << "query" >>, JStr(query) >>,
                    << << "documents" >>, JStr(documentsContent(documents)) >> >>))

\* a button that is disabled for an empty query or an empty list only
DisabledWhileEmpty == Trim(currentQuery) = << >> \/ Len(storedDocuments) = 0

\* the disabled attribute of the Process Query button
ProcessQueryDisabled ==
  isProcessing \/ Trim(currentQuery) = << >> \/ Len(storedDocuments) = 0

\* processQuery, up to the await of fetch
processQuery ==
  /\ mounted
  /\ IF GuardRejects(currentQuery, storedDocuments)
     THEN /\ toast' = "Invalid query"
          /\ calls' = Append(calls, Settled)
          /\ UNCHANGED isProcessing
     ELSE /\ isProcessing' = TRUE
          /\ calls' = Append(calls, [pc |-> "fetching",
                                     query |-> currentQuery,
                                     startTime |-> now,
                                     request |-> RequestBody(currentQuery, storedDocuments)])
          /\ UNCHANGED toast
  /\ UNCHANGED << storedDocuments, queryHistory, currentQuery, currentResult,
                  activeTab, uploadProgress, localStorage, uploads,
                  now, mounted, exchange, selectedDocument >>

\* the endpoint answers the request of a call
Answered(call, answer) ==
  [pc |-> "responded",
   query |-> call.query,
   startTime |-> call.startTime,
   request |-> call.request,
   response |-> answer.response,
   invoked |-> Len(answer.invoked)]

Serve(c, upstream) ==
  /\ c \in 1..Len(calls)
  /\ calls[c].pc = "fetching"
  /\ calls' = [calls EXCEPT ![c] = Answered(calls[c], POST(calls[c].request, upstream))]
  /\ UNCHANGED << storedDocuments, queryHistory, currentQuery, isProcessing,
                  currentResult, activeTab, uploadProgress, localStorage,
                  toast, uploads, now, mounted, exchange, selectedDocument >>

\* the object processQuery falls back to when JSON.parse throws
Fallback(text) ==
  JObj(<< << << "Decision" >>, JStr(<< "Processed" >>) >>,
          << << "Justification" >>,
             IF Truthy(text) THEN text ELSE JStr(<< "Query processed successfully" >>) >>,
          << << "Clause_References" >>, JArr(<< >>) >>,
          << << "Confidence" >>, JNum("0.8") >> >>)

\* a processQuery that keeps data.text as it came
ProcessedResultUnparsed(text) == text

\* try { JSON.parse(data.text) } catch { the fallback object }
ParsedOrFallback(parsed, text) == IF parsed.ok THEN parsed.v ELSE Fallback(text)

\* processedResult, from data.text
ProcessedResult(text) ==
  IF text.k = "str" THEN ParsedOrFallback(JSONparse(text.s), text) ELSE text

\* What the rest of processQuery does with the outcome of fetch:
\*   thrown: an exception reached the outer catch before any state was set
\*           (fetch rejected, response.json() rejected, data.text of null,
\*           or the response was not ok);
\*   result: processedResult, when the state was set;
\*   failed: the failure notification was shown.
\* The description of the success notification reads processedResult.Decision,
\* which throws for null and undefined after the state has been set.
Thrown == [thrown |-> TRUE, result |-> JUndefined, failed |-> TRUE]

OutcomeOfResult(processedResult) ==
  [thrown |-> FALSE, result |-> processedResult, failed |-> PropThrows(processedResult)]

\* from `data`, the outcome of response.json(), on
OutcomeOfData(status, data) ==
  IF ~data.ok \/ PropThrows(data.v) \/ status \notin 200..299
  THEN Thrown
  ELSE OutcomeOfResult(ProcessedResult(Field(data.v, "text")))

\* processQuery with a catch that falls back to the default result for
\* every failure, not for a failure of JSON.parse alone
OutcomeFallsBack(fetched) ==
  LET fellBack == [thrown |-> FALSE, result |-> Fallback(JUndefined), failed |-> FALSE]
      outcome == IF fetched.kind = "rejects" THEN Thrown
                 ELSE OutcomeOfData(fetched.status, JSONparse(fetched.body))
  IN IF outcome.thrown THEN fellBack ELSE outcome

Outcome(fetched) ==
  IF fetched.kind = "rejects" THEN Thrown
  ELSE OutcomeOfData(fetched.status, JSONparse(fetched.body))

\* the record of a query
QueryResult(query, startTime, t, result) ==
  JObj(<< << << "id" >>, JStr(<< "query_", ToString(t) >>) >>,
          << << "query" >>, JStr(query) >>,
          << << "timestamp" >>, JStr(IsoString(t)) >>,
          << << "result" >>, result >>,
          << << "processingTime" >>, JNum(ToString(t - startTime)) >> >>)

\* what fetch can give call c: the endpoint's answer once there is one, or
\* an outcome the endpoint did not produce
Fetched(c) ==
  IF calls[c].pc = "settled" THEN {}
  ELSE ForeignOutcomes
       \cup (IF calls[c].pc = "responded" THEN {FetchResponse(calls[c].response)} ELSE {})

\* The component body reads q.result.Decision.toLowerCase() of every record
\* of the history: a render with a record whose result is null or undefined,
\* or has no Decision that is a string, throws.
RenderThrows(history) ==
  \E i \in 1..Len(history) :
    LET result == Field(history[i], "result") IN
    PropThrows(result) \/ Field(result, "Decision").k # "str"

\* setters that build the history from the list the handler saw when the
\* query was dispatched, here the empty list: setQueryHistory([queryResult])
CommitLosingOthers(thrown, queryResult) ==
  IF ~mounted
  THEN UNCHANGED << queryHistory, currentResult, activeTab, currentQuery,
                    localStorage, isProcessing, mounted >>
  ELSE IF thrown
  THEN /\ isProcessing' = FALSE
       /\ UNCHANGED << queryHistory, currentResult, activeTab, currentQuery,
                       localStorage, mounted >>
  ELSE IF RenderThrows(<< queryResult >>)
  THEN /\ mounted' = FALSE
       /\ UNCHANGED << queryHistory, currentResult, activeTab, currentQuery,
                       localStorage, isProcessing >>
  ELSE /\ queryHistory' = << queryResult >>
       /\ currentResult' = queryResult
       /\ activeTab' = "results"
       /\ currentQuery' = << >>
       /\ isProcessing' = FALSE
       /\ localStorage' = SaveEffects({HistoryKey}, localStorage, storedDocuments,
                                      << queryResult >>)
       /\ UNCHANGED mounted

\* a processQuery that resets isProcessing at the end of the try block and
\* not in a finally block
CommitWithoutFinally(thrown, queryResult) ==
  IF ~mounted \/ thrown
  THEN UNCHANGED << queryHistory, currentResult, activeTab, currentQuery,
                    localStorage, isProcessing, mounted >>
  ELSE IF RenderThrows(<< queryResult >> \o queryHistory)
  THEN /\ mounted' = FALSE
       /\ UNCHANGED << queryHistory, currentResult, activeTab, currentQuery,
                       localStorage, isProcessing >>
  ELSE /\ queryHistory' = << queryResult >> \o queryHistory
       /\ currentResult' = queryResult
       /\ activeTab' = "results"
       /\ currentQuery' = << >>
       /\ isProcessing' = FALSE
       /\ localStorage' = SaveEffects({HistoryKey}, localStorage, storedDocuments,
                                      << queryResult >> \o queryHistory)
       /\ UNCHANGED mounted

\* The setters of processQuery and the render that follows.  The values
\* set are committed by that render; when it throws, the component leaves
\* the page with nothing committed and no effect run.  Once it has left the
\* page the setters do nothing.
Commit(thrown, queryResult) ==
  IF ~mounted
  THEN UNCHANGED << queryHistory, currentResult, activeTab, currentQuery,
                    localStorage, isProcessing, mounted >>
  ELSE IF thrown
  THEN /\ isProcessing' = FALSE
       /\ UNCHANGED << queryHistory, currentResult, activeTab, currentQuery,
                       localStorage, mounted >>
  ELSE IF RenderThrows(<< queryResult >> \o queryHistory)
  THEN /\ mounted' = FALSE
       /\ UNCHANGED << queryHistory, currentResult, activeTab, currentQuery,
                       localStorage, isProcessing >>
  ELSE /\ queryHistory' = << queryResult >> \o queryHistory
       /\ currentResult' = queryResult
       /\ activeTab' = "results"
       /\ currentQuery' = << >>
       /\ isProcessing' = FALSE
       /\ localStorage' = SaveEffects({HistoryKey}, localStorage, storedDocuments,
                                      << queryResult >> \o queryHistory)
       /\ UNCHANGED mounted

\* call c ends with the outcome `out`; the notification is shown whether
\* the component is on the page or not
Finish(c, out) ==
  /\ Commit(out.thrown, QueryResult(calls[c].query, calls[c].startTime, now, out.result))
  /\ toast' = IF out.failed THEN "Processing failed" ELSE "Query processed successfully"
  /\ calls' = [calls EXCEPT ![c] = Settled]
  /\ UNCHANGED << storedDocuments, uploadProgress, uploads, now, exchange, selectedDocument >>

\* processQuery, from the await of fetch to its end
Settle(c, fetched) ==
  /\ c \in 1..Len(calls)
  /\ fetched \in Fetched(c)
  /\ Finish(c, Outcome(fetched))

(***************************************************************************)
(* Removing and clearing                                                   *)
(***************************************************************************)
\* a removal that also drops the history of queries made with the document
removeDocumentAndHistory(id) ==
  /\ mounted
  /\ \E i \in 1..Len(storedDocuments) : Field(storedDocuments[i], "id") = id
  /\ LET kept == WithoutId(storedDocuments, id)
     IN /\ storedDocuments' = kept
        /\ localStorage' = SaveEffects({DocumentsKey, HistoryKey}, localStorage, kept, << >>)
  /\ queryHistory' = << >>
  /\ toast' = "Document removed"
  /\ UNCHANGED << currentQuery, isProcessing, currentResult,
                  activeTab, uploadProgress, calls, uploads, now, mounted, exchange, selectedDocument >>

removeDocument(id) ==
  /\ mounted
  /\ \E i \in 1..Len(storedDocuments) : Field(storedDocuments[i], "id") = id
  /\ LET kept == WithoutId(storedDocuments, id)
     IN /\ storedDocuments' = kept
        /\ localStorage' = SaveEffects({DocumentsKey}, localStorage, kept, queryHistory)
  /\ toast' = "Document removed"
  /\ UNCHANGED << queryHistory, currentQuery, isProcessing, currentResult,
                  activeTab, uploadProgress, calls, uploads, now, mounted, exchange, selectedDocument >>

clearAllData ==
  /\ mounted
  /\ storedDocuments' = << >>
  /\ queryHistory' = << >>
  /\ currentResult' = JNull
  /\ localStorage' = SaveEffects({DocumentsKey, HistoryKey},
                                 RemoveItem(RemoveItem(localStorage, DocumentsKey), HistoryKey),
                                 << >>, << >>)
  /\ toast' = "All data cleared"
  /\ UNCHANGED << currentQuery, isProcessing, activeTab, uploadProgress,
                  calls, uploads, now, mounted, exchange, selectedDocument >>

\* the Clear History button, shown while the history is not empty
ClearHistory ==
  /\ mounted
  /\ Len(queryHistory) > 0
  /\ queryHistory' = << >>
  /\ localStorage' = SaveEffects({HistoryKey}, RemoveItem(localStorage, HistoryKey),
                                 storedDocuments, << >>)
  /\ toast' = "History cleared"
  /\ UNCHANGED << storedDocuments, currentQuery, isProcessing, currentResult,
                  activeTab, uploadProgress, calls, uploads, now, mounted, exchange, selectedDocument >>

\* the View Details button of the i-th record of the history tab
ViewDetails(i) ==
  /\ mounted
  /\ i \in 1..Len(queryHistory)
  /\ currentResult' = queryHistory[i]
  /\ activeTab' = "results"
  /\ UNCHANGED << storedDocuments, queryHistory, currentQuery, isProcessing,
                  uploadProgress, localStorage, toast, calls, uploads,
                  now, mounted, exchange, selectedDocument >>

Tabs == {"upload", "query", "results", "viewer", "history"}

\* a button of the tab bar
setActiveTab(tab) ==
  /\ mounted
  /\ activeTab' = tab
  /\ UNCHANGED << storedDocuments, queryHistory, currentQuery, isProcessing,
                  currentResult, uploadProgress, localStorage, toast, calls,
                  uploads, now, mounted, exchange, selectedDocument >>

\* the View button of the i-th document of the upload tab
ViewDocument(i) ==
  /\ mounted
  /\ i \in 1..Len(storedDocuments)
  /\ selectedDocument' = storedDocuments[i]
  /\ activeTab' = "viewer"
  /\ UNCHANGED << storedDocuments, queryHistory, currentQuery, isProcessing,
                  currentResult, uploadProgress, localStorage, toast, calls,
                  uploads, now, mounted, exchange >>

\* a click on the card of the i-th document: the viewer tab shows the cards
\* while no document is selected
SelectDocument(i) ==
  /\ mounted
  /\ activeTab = "viewer"
  /\ selectedDocument = JNull
  /\ i \in 1..Len(storedDocuments)
  /\ selectedDocument' = storedDocuments[i]
  /\ UNCHANGED << storedDocuments, queryHistory, currentQuery, isProcessing,
                  currentResult, activeTab, uploadProgress, localStorage,
                  toast, calls, uploads, now, mounted, exchange >>

\* the Close button of the viewer tab, shown while a document is selected
CloseViewer ==
  /\ mounted
  /\ activeTab = "viewer"
  /\ selectedDocument # JNull
  /\ selectedDocument' = JNull
  /\ UNCHANGED << storedDocuments, queryHistory, currentQuery, isProcessing,
                  currentResult, activeTab, uploadProgress, localStorage,
                  toast, calls, uploads, now, mounted, exchange >>

(***************************************************************************)
(* Reload: the page is loaded anew and the component mounts.  Requests and *)
(* uploads of the page before are abandoned with it.                       *)
(***************************************************************************)
\* the load effect for one slot: getItem, the test of the string, JSON.parse
LoadItem(item) ==
  IF item.present /\ item.value # << >>
  THEN [saved |-> TRUE, json |-> JSONparse(item.value)]
  ELSE [saved |-> FALSE, json |-> [ok |-> TRUE, v |-> JArr(<< >>)]]

\* a list the component can render
IsList(loaded) == loaded.json.ok /\ loaded.json.v.k = "arr"

\* a mount whose save effects on the initial empty lists have the last word
MountSavingLast(docs, hist) ==
  /\ storedDocuments' = << >>
  /\ queryHistory' = << >>
  /\ localStorage' = SaveEffects({DocumentsKey, HistoryKey}, localStorage, << >>, << >>)
  /\ mounted' = TRUE

\* The mount, for what the load effect has read from the two slots: the
\* first render has empty lists; its effects are the load effect, which
\* sets the lists it found, and the two save effects, which write the empty
\* lists; the render that follows has the lists set, and its save effects
\* write them.  When JSON.parse or a render throws the component leaves the
\* page, with or without the save effects of the first render done.
Mount(docs, hist) ==
  LET first == SaveEffects({DocumentsKey, HistoryKey}, localStorage, << >>, << >>)
      changed == (IF docs.saved THEN {DocumentsKey} ELSE {})
                 \cup (IF hist.saved THEN {HistoryKey} ELSE {})
  IN IF IsList(docs) /\ IsList(hist) /\ ~RenderThrows(hist.json.v.items)
     THEN /\ storedDocuments' = docs.json.v.items
          /\ queryHistory' = hist.json.v.items
          /\ localStorage' = SaveEffects(changed, first, docs.json.v.items,
                                         hist.json.v.items)
          /\ mounted' = TRUE
     ELSE /\ storedDocuments' = << >>
          /\ queryHistory' = << >>
          /\ localStorage' \in {localStorage, first}
          /\ mounted' = FALSE

\* window.location.reload(), or the page opened again
Reload ==
  /\ Mount(LoadItem(localStorage[DocumentsKey]), LoadItem(localStorage[HistoryKey]))
  /\ currentQuery' = << >>
  /\ isProcessing' = FALSE
  /\ currentResult' = JNull
  /\ activeTab' = "upload"
  /\ uploadProgress' = << >>
  /\ toast' = ""
  /\ calls' = [c \in 1..Len(calls) |-> Settled]
  /\ uploads' = << >>
  /\ selectedDocument' = JNull
  /\ UNCHANGED << now, exchange >>

(***************************************************************************)
(* The system                                                              *)
(***************************************************************************)
Init ==
  /\ storedDocuments = << >>
  /\ queryHistory = << >>
  /\ currentQuery = << >>
  /\ isProcessing = FALSE
  /\ currentResult = JNull
  /\ activeTab = "upload"
  /\ uploadProgress = << >>
  /\ localStorage = SaveEffects({DocumentsKey, HistoryKey},
                                [key \in {DocumentsKey, HistoryKey} |-> NoItem],
                                << >>, << >>)
  /\ toast = ""
  /\ calls = << >>
  /\ uploads = << >>
  /\ now = 0
  /\ mounted = TRUE
  /\ exchange = NoExchange
  /\ selectedDocument = JNull

Next ==
  \/ Tick
  \/ \E files \in Batches : \E randoms \in [1..Len(files) -> RandomIds] :
       HasRoom(files) /\ UploadStart(files, randoms)
  \/ \E b \in 1..Len(uploads) : ReadError(b)
  \/ \E b \in 1..Len(uploads) : \E counts \in [1..Len(uploads[b].files) -> Placeholders] :
       UploadComplete(b, counts)
  \/ \E q \in Queries : setCurrentQuery(q)
  \/ Len(calls) < MaxCalls /\ processQuery
  \/ \E c \in 1..Len(calls) : \E upstream \in ServedUpstreams : Serve(c, upstream)
  \/ \E c \in 1..Len(calls) : \E fetched \in Fetched(c) : Settle(c, fetched)
  \/ \E id \in {Field(storedDocuments[i], "id") : i \in 1..Len(storedDocuments)} :
       removeDocument(id)
  \/ clearAllData
  \/ ClearHistory
  \/ \E i \in 1..Len(queryHistory) : ViewDetails(i)
  \/ \E tab \in Tabs : setActiveTab(tab)
  \/ \E i \in 1..Len(storedDocuments) : ViewDocument(i)
  \/ \E i \in 1..Len(storedDocuments) : SelectDocument(i)
  \/ CloseViewer
  \/ Reload

\* the whole system
Spec == Init /\ [][Next]_vars

(***************************************************************************)
(* The whole system has more states than can be enumerated, so each        *)
(* property is checked on a part of it.                                    *)
(*                                                                         *)
(* QuerySpec: the queries of a session whose documents are already         *)
(* stored.  It starts from lists that the uploads of StorageSpec reach and *)
(* leaves out the uploads, the removal of single documents and the clock.  *)
(***************************************************************************)
PolicyDoc == processDocument(PolicyFile, FileId(0, "k3x9q2m1z"), 0, 0, << 20, 5 >>)
QuotedDoc == processDocument(QuotedFile, FileId(0, "p7w4c8t5b"), 0, 0, << 20, 5 >>)
StoredLists == { << >>, << PolicyDoc, QuotedDoc >> }

QueryInit ==
  /\ storedDocuments \in StoredLists
  /\ queryHistory = << >>
  /\ currentQuery = << >>
  /\ isProcessing = FALSE
  /\ currentResult = JNull
  /\ activeTab = "upload"
  /\ uploadProgress = << >>
  /\ localStorage = SaveEffects({DocumentsKey, HistoryKey},
                                [key \in {DocumentsKey, HistoryKey} |-> NoItem],
                                storedDocuments, << >>)
  /\ toast = ""
  /\ calls = << >>
  /\ uploads = << >>
  /\ now = 0
  /\ mounted = TRUE
  /\ exchange = NoExchange
  /\ selectedDocument = JNull

QueryNext ==
  \/ \E q \in Queries : setCurrentQuery(q)
  \/ Len(calls) < MaxCalls /\ processQuery
  \/ \E c \in 1..Len(calls) : \E upstream \in ServedUpstreams : Serve(c, upstream)
  \/ \E c \in 1..Len(calls) : \E fetched \in Fetched(c) : Settle(c, fetched)
  \/ clearAllData
  \/ ClearHistory

QuerySpec == QueryInit /\ [][QueryNext]_vars

(***************************************************************************)
(* StorageSpec: everything that changes the two lists and the two slots,   *)
(* from the first render on, with one query text and one model answer,     *)
(* one upload and one query in flight at a time.                           *)
(***************************************************************************)
StorageNext ==
  \/ \E files \in {<< PolicyFile >>, << PolicyFile, QuotedFile >>} :
       \E randoms \in [1..Len(files) -> RandomIds] :
         /\ HasRoom(files)
         /\ uploads = << >>
         /\ UploadStart(files, randoms)
  \/ \E b \in 1..Len(uploads) :
       UploadComplete(b, [i \in 1..Len(uploads[b].files) |-> << 20, 5 >>])
  \/ setCurrentQuery(KneeQuery)
  \/ /\ Len(calls) < MaxStored
     /\ \A c \in 1..Len(calls) : calls[c].pc = "settled"
     /\ processQuery
  \/ \E c \in 1..Len(calls) :
       Serve(c, UpstreamText(<< "\n" >> \o Stringify(ClarificationPayload) \o << "\n" >>))
  \/ \E c \in 1..Len(calls) : \E fetched \in Fetched(c) : Settle(c, fetched)
  \/ \E id \in {Field(storedDocuments[i], "id") : i \in 1..Len(storedDocuments)} :
       removeDocument(id)
  \/ clearAllData
  \/ ClearHistory

StorageSpec == Init /\ [][StorageNext]_vars

(***************************************************************************)
(* Storage with reloads of the page.                                       *)
(***************************************************************************)
ReloadNext ==
  \/ \E randoms \in [1..2 -> RandomIds] :
       /\ storedDocuments = << >>
       /\ uploads = << >>
       /\ HasRoom(<< PolicyFile, QuotedFile >>)
       /\ UploadStart(<< PolicyFile, QuotedFile >>, randoms)
  \/ \E b \in 1..Len(uploads) :
       UploadComplete(b, [i \in 1..Len(uploads[b].files) |-> << 20, 5 >>])
  \/ setCurrentQuery(KneeQuery)
  \/ /\ Len(calls) < MaxStored
     /\ \A c \in 1..Len(calls) : calls[c].pc = "settled"
     /\ processQuery
  \/ \E c \in 1..Len(calls) :
       Serve(c, UpstreamText(<< "\n" >> \o Stringify(ApprovedPayload) \o << "\n" >>))
  \/ \E c \in 1..Len(calls) : \E fetched \in Fetched(c) : Settle(c, fetched)
  \/ \E id \in {Field(storedDocuments[i], "id") : i \in 1..Len(storedDocuments)} :
       removeDocument(id)
  \/ clearAllData
  \/ ClearHistory
  \/ \E i \in 1..Len(queryHistory) : ViewDetails(i)
  \/ Reload

ReloadSpec == Init /\ [][ReloadNext]_vars

(***************************************************************************)
(* The viewer: documents are uploaded, opened and closed in the viewer,    *)
(* removed and cleared.                                                    *)
(***************************************************************************)
ViewerNext ==
  \/ \E randoms \in [1..2 -> RandomIds] :
       /\ uploads = << >>
       /\ activeTab = "upload"
       /\ HasRoom(<< PolicyFile, QuotedFile >>)
       /\ UploadStart(<< PolicyFile, QuotedFile >>, randoms)
  \/ \E b \in 1..Len(uploads) :
       UploadComplete(b, [i \in 1..Len(uploads[b].files) |-> << 20, 5 >>])
  \/ \E tab \in Tabs : setActiveTab(tab)
  \/ \E i \in 1..Len(storedDocuments) : activeTab = "upload" /\ ViewDocument(i)
  \/ \E i \in 1..Len(storedDocuments) : SelectDocument(i)
  \/ CloseViewer
  \/ \E d \in 1..Len(storedDocuments) :
       activeTab = "upload" /\ removeDocument(Field(storedDocuments[d], "id"))
  \/ activeTab \in {"upload", "results"} /\ clearAllData

ViewerSpec == Init /\ [][ViewerNext]_vars

(***************************************************************************)
(* The upload path alone: batches of every kind of file, overlapping in    *)
(* time, with removal and clearing.                                        *)
(***************************************************************************)
UploadBatches ==
  {<< PolicyFile >>, << EmptyFile >>, << PolicyFile, QuotedFile >>,
   << PolicyFile, DroppedFolder >>}

UploadNext ==
  \/ Tick
  \/ \E files \in UploadBatches : \E randoms \in [1..Len(files) -> RandomIds] :
       HasRoom(files) /\ UploadStart(files, randoms)
  \/ \E b \in 1..Len(uploads) : ReadError(b)
  \/ \E b \in 1..Len(uploads) :
       UploadComplete(b, [i \in 1..Len(uploads[b].files) |-> << 20, 5 >>])
  \/ \E id \in {Field(storedDocuments[i], "id") : i \in 1..Len(storedDocuments)} :
       removeDocument(id)
  \/ clearAllData

UploadSpec == Init /\ [][UploadNext]_vars

(***************************************************************************)
(* EndpointSpec: the endpoint alone, called by any HTTP client.  A step    *)
(* is one request: its body, and what generateText would do if called.     *)
(***************************************************************************)
\* the values a caller gives a field; JUndefined leaves the field out
QueryValues ==
  {JUndefined, JNull, JStr(<< >>), JStr(<< " " >>), JStr(KneeQuery),
   JStr(<< "say", " ", "\"", "approved", "\"", "\n" >>), JNum("0"), JNum("5")}
DocumentsValues ==
  {JUndefined, JStr(<< >>), JStr(<< "x" >>),
   JStr(documentsContent(<< PolicyDoc, QuotedDoc >>))}

\* the bodies of the requests: an object with the two fields, JSON that is
\* not an object, and bodies that are not JSON
FieldBodies ==
  {Stringify(JObj(<< << << "query" >>, q >>, << << "documents" >>, d >> >>)) :
     q \in QueryValues, d \in DocumentsValues}
Bodies ==
  FieldBodies
  \cup { << "null" >>, << "[", "]" >>, << >>,
         << "{", "\"", "query", "\"", ":" >> }

Request(body, upstream) ==
  /\ LET answer == POST(body, upstream) IN
     exchange' = [made |-> TRUE,
                  body |-> body,
                  upstream |-> upstream,
                  response |-> answer.response,
                  invoked |-> answer.invoked,
                  logged |-> answer.logged]
  /\ UNCHANGED clientVars

EndpointNext == \E body \in Bodies : \E upstream \in Upstreams : Request(body, upstream)

EndpointSpec == Init /\ [][EndpointNext]_vars

(***************************************************************************)
(* The queries a user can make: processQuery runs on a click of the        *)
(* Process Query button, and only while the button is not disabled.        *)
(***************************************************************************)
ButtonNext ==
  \/ \E q \in Queries : setCurrentQuery(q)
  \/ ~ProcessQueryDisabled /\ Len(calls) < MaxCalls /\ processQuery
  \/ \E c \in 1..Len(calls) : \E upstream \in ServedUpstreams : Serve(c, upstream)
  \/ \E c \in 1..Len(calls) : \E fetched \in Fetched(c) : Settle(c, fetched)
  \/ clearAllData
  \/ ClearHistory

ButtonSpec == QueryInit /\ [][ButtonNext]_vars

(***************************************************************************)
(* Work that outlives a bulk clear.  Queries are dispatched and uploads    *)
(* started at instant 0 and not after a clear; the clock moves to instant  *)
(* 1 right after a clear.  What is in flight at instant 1 was therefore    *)
(* started before the last clear, and it may complete at either instant.   *)
(***************************************************************************)
ClearNext ==
  \/ setCurrentQuery(KneeQuery)
  \/ /\ now = 0
     /\ toast # "All data cleared"
     /\ Len(calls) < MaxStored
     /\ processQuery
  \/ /\ now = 0
     /\ toast # "All data cleared"
     /\ uploads = << >>
     /\ HasRoom(<< PolicyFile >>)
     /\ \E random \in RandomIds : UploadStart(<< PolicyFile >>, << random >>)
  \/ \E c \in 1..Len(calls) : Serve(c, UpstreamText(Stringify(ClarificationPayload)))
  \/ \E c \in 1..Len(calls) : \E fetched \in Fetched(c) : Settle(c, fetched)
  \/ \E b \in 1..Len(uploads) : UploadComplete(b, << << 20, 5 >> >>)
  \/ now = 0 /\ clearAllData
  \/ toast = "All data cleared" /\ Tick

ClearSpec == QueryInit /\ [][ClearNext]_vars

(***************************************************************************)
(* Dispatch: the client's queries with the endpoint's answers to them, and *)
(* the endpoint's answers to requests of other clients.  The endpoint      *)
(* keeps no state, so the two are explored one after the other.            *)
(***************************************************************************)
DispatchBodies ==
  {<< >>,
   Stringify(JObj(<< << << "query" >>, JStr(<< >>) >>,
                     << << "documents" >>, JStr(<< "x" >>) >> >>)),
   Stringify(JObj(<< << << "query" >>, JStr(KneeQuery) >>,
                     << << "documents" >>, JStr(<< "x" >>) >> >>))}
DispatchUpstreams ==
  {UpstreamText(Stringify(ClarificationPayload)), UpstreamThrows("rate limit exceeded")}

DispatchNext ==
  \/ ~exchange.made /\ \E q \in Queries : setCurrentQuery(q)
  \/ ~exchange.made /\ Len(calls) < MaxCalls /\ processQuery
  \/ \E c \in 1..Len(calls) : \E upstream \in ServedUpstreams : Serve(c, upstream)
  \/ \E c \in 1..Len(calls) : \E fetched \in Fetched(c) : Settle(c, fetched)
  \/ calls = << >> /\ \E body \in DispatchBodies : \E upstream \in DispatchUpstreams :
                        Request(body, upstream)

DispatchSpec == QueryInit /\ [][DispatchNext]_vars

(***************************************************************************)
(* Properties of the query dispatch                                        *)
(***************************************************************************)
\* a query text that is empty or holds nothing but whitespace
Blank(q) == \A i \in 1..Len(q) : q[i] \in Whitespace

\* an outcome of fetch that is a transport failure or not a 2xx answer
TransportFailure(fetched) ==
  \/ fetched.kind = "rejects"
  \/ ~JSONparse(fetched.body).ok
  \/ fetched.status \notin 200..299

\* a 2xx answer whose body is a JSON object
Answer2xx(fetched) ==
  /\ fetched.kind = "response"
  /\ fetched.status \in 200..299
  /\ JSONparse(fetched.body).ok
  /\ JSONparse(fetched.body).v.k = "obj"

\* the text of a 2xx answer
TextOf(fetched) == Field(JSONparse(fetched.body).v, "text")

\* C1: a call of processQuery while the query text is empty or whitespace,
\* or while no document is stored, sends no request, shows the rejection
\* notification, and leaves queryHistory, currentResult and isProcessing
\* as they are.
C1_GuardBlocksDispatch ==
  [][(/\ Len(calls') = Len(calls) + 1
      /\ (Blank(currentQuery) \/ storedDocuments = << >>))
     => /\ calls'[Len(calls')].pc # "fetching"
        /\ \A c \in 1..Len(calls) : calls'[c] = calls[c]
        /\ toast' = "Invalid query"
        /\ UNCHANGED << queryHistory, currentResult, isProcessing >>]_vars

\* processQuery has rejected a whitespace-only query with documents stored
C1_Witness ==
  /\ storedDocuments # << >>
  /\ currentQuery = << " ", "\n" >>
  /\ toast = "Invalid query"
  /\ \E c \in 1..Len(calls) : calls[c].pc = "settled"
  /\ ~isProcessing

\* C2: when the fetch of a dispatched query rejects, its body cannot be
\* read, or the answer is not 2xx, processQuery shows the failure
\* notification, sends no request, and leaves queryHistory and its slot as
\* they are.
C2_FailureLeavesHistory ==
  [][\A c \in 1..Len(calls) : \A fetched \in Fetched(c) :
       (TransportFailure(fetched) /\ Settle(c, fetched))
       => /\ toast' = "Processing failed"
          /\ Len(calls') = Len(calls)
          /\ \A d \in 1..Len(calls) : calls'[d].pc = "fetching" => calls'[d] = calls[d]
          /\ queryHistory' = queryHistory
          /\ localStorage'[HistoryKey] = localStorage[HistoryKey]]_vars

\* a query has ended in the failure notification with the history empty
C2_Witness ==
  /\ toast = "Processing failed"
  /\ mounted
  /\ queryHistory = << >>
  /\ localStorage[HistoryKey] = Item(<< "[", "]" >>)
  /\ \E c \in 1..Len(calls) : calls[c].pc = "settled"

\* the fallback object of the specification for the raw text `text`
FallbackObject(text) ==
  JObj(<< << << "Decision" >>, JStr(<< "Processed" >>) >>,
          << << "Justification" >>,
             IF text.k = "str" /\ text.s # << >> THEN text
             ELSE JStr(<< "Query processed successfully" >>) >>,
          << << "Clause_References" >>, JArr(<< >>) >>,
          << << "Confidence" >>, JNum("0.8") >> >>)

\* a text that is absent or is not valid JSON
NotValidJson(text) == text.k # "str" \/ ~JSONparse(text.s).ok

\* C3: for every 2xx answer whose text is not valid JSON the recorded
\* result is the fallback object: Decision "Processed", no clause
\* references, Confidence 0.8, and as Justification the raw text, or the
\* fixed string when the raw text is empty or absent.
C3_FallbackForEveryNonJson ==
  [][\A c \in 1..Len(calls) : \A fetched \in Fetched(c) :
       (/\ mounted
        /\ Answer2xx(fetched)
        /\ NotValidJson(TextOf(fetched))
        /\ Settle(c, fetched))
       => /\ Len(queryHistory') = Len(queryHistory) + 1
          /\ Field(queryHistory'[1], "result") = FallbackObject(TextOf(fetched))]_vars

\* the texts that are JSON for the payload v: its serialization, bare or
\* between line breaks
TextsOf(v) == {Stringify(v), << "\n" >> \o Stringify(v) \o << "\n" >>}

\* the body {text: t}
Envelope(t) == Stringify(JObj(<< << << "text" >>, JStr(t) >> >>))

\* the documented payloads, each with the bodies that carry it
PayloadBodies == UNION {{<< v, Envelope(t) >> : t \in TextsOf(v)} : v \in DocumentedPayloads}

\* C4: for every 2xx answer whose text is JSON of the documented shape,
\* the result in the new history record and in currentResult is that JSON
\* structure, field for field.
C4_ValidJsonStoredExactly ==
  [][\A c \in 1..Len(calls) : \A fetched \in Fetched(c) : \A carried \in PayloadBodies :
         (/\ mounted
          /\ fetched.kind = "response"
          /\ fetched.status \in 200..299
          /\ fetched.body = carried[2]
          /\ Settle(c, fetched))
         => /\ Len(queryHistory') = Len(queryHistory) + 1
            /\ Field(queryHistory'[1], "result") = carried[1]
            /\ currentResult' = queryHistory'[1]
            /\ localStorage'[HistoryKey] = Item(Stringify(JArr(queryHistory')))]_vars

\* a documented payload is the result of the newest record and of currentResult
C4_Witness ==
  /\ queryHistory # << >>
  /\ Field(queryHistory[1], "result") \in DocumentedPayloads
  /\ Field(currentResult, "result") = Field(queryHistory[1], "result")
  /\ toast = "Query processed successfully"

\* C5: for every 2xx answer that carries a text string, whatever the text,
\* processQuery ends on the success path: one record more in the history,
\* the success notification, never the failure notification.
C5_ModelOutputNeverAnError ==
  [][\A c \in 1..Len(calls) : \A fetched \in Fetched(c) :
       (/\ mounted
        /\ Answer2xx(fetched)
        /\ TextOf(fetched).k = "str"
        /\ Settle(c, fetched))
       => /\ Len(queryHistory') = Len(queryHistory) + 1
          /\ toast' = "Query processed successfully"]_vars

(***************************************************************************)
(* Properties of the persisted state                                       *)
(***************************************************************************)
\* C6: after clearAllData, with the render that follows and its effects
\* done, the document list and the history are empty and neither
\* 'llm-documents' nor 'llm-history' exists in local storage.
C6_ClearRemovesBothEntries ==
  [][clearAllData
     => /\ storedDocuments' = << >>
        /\ queryHistory' = << >>
        /\ localStorage'[DocumentsKey] = NoItem
        /\ localStorage'[HistoryKey] = NoItem]_vars

\* C7: after every change of the document list or of the history, with
\* the effects of the render that follows done, 'llm-documents' holds the
\* serialization of the whole document list and 'llm-history' that of the
\* whole history.
C7_SlotsHoldTheLists ==
  /\ localStorage[DocumentsKey] = Item(Stringify(JArr(storedDocuments)))
  /\ localStorage[HistoryKey] = Item(Stringify(JArr(queryHistory)))

\* two documents were uploaded, a query has succeeded, and one document
\* was removed: both slots hold a list that is not empty
C7_Witness ==
  /\ Len(storedDocuments) = 1
  /\ Len(queryHistory) = 1
  /\ toast = "Document removed"
  /\ localStorage[DocumentsKey] # Item(<< "[", "]" >>)
  /\ localStorage[HistoryKey] # Item(<< "[", "]" >>)

(***************************************************************************)
(* Properties of the endpoint                                              *)
(***************************************************************************)
\* the field of a request: undefined when the body is not JSON or has none
BodyField(body, name) ==
  LET json == JSONparse(body) IN
  IF json.ok THEN Field(json.v, name) ELSE JUndefined

\* a field that is absent or empty
AbsentOrEmpty(v) == v.k \in {"undefined", "null"} \/ v = JStr(<< >>)

\* the request of the exchange lacks a field
FieldMissing ==
  \/ AbsentOrEmpty(BodyField(exchange.body, "query"))
  \/ AbsentOrEmpty(BodyField(exchange.body, "documents"))

\* a body of the shape {error: string}
ErrorShape(body) ==
  LET json == JSONparse(body) IN
  /\ json.ok
  /\ json.v.k = "obj"
  /\ Len(json.v.members) = 1
  /\ json.v.members[1][1] = << "error" >>
  /\ json.v.members[1][2].k = "str"

\* C8: a POST whose query or documents field is absent or empty is
\* answered with status 400 and a body {error: string}, and the model is
\* not invoked.
C8_MissingFieldIs400 ==
  (exchange.made /\ FieldMissing)
  => /\ exchange.response.status = 400
     /\ ErrorShape(exchange.response.body)
     /\ exchange.invoked = << >>

\* C9: status 400 if and only if query or documents is absent or empty,
\* status 500 if and only if the invocation of the model failed, and
\* status 200 for every other request.
C9_StatusByCause ==
  exchange.made
  => LET status == exchange.response.status
         failed == exchange.invoked # << >> /\ exchange.upstream.kind = "throws"
     IN /\ status = 400 <=> FieldMissing
        /\ status = 500 <=> failed
        /\ (~FieldMissing /\ ~failed) => status = 200

\* C10: when the invocation of the model returns the text t the answer
\* has status 200 and its body is the JSON of {text: t}, with t as it was
\* generated.
C10_TextPassedThrough ==
  (exchange.made /\ exchange.invoked # << >> /\ exchange.upstream.kind = "text")
  => /\ exchange.response.status = 200
     /\ LET json == JSONparse(exchange.response.body) IN
        /\ json.ok
        /\ json.v = JObj(<< << << "text" >>, JStr(exchange.upstream.text) >> >>)

\* the model has generated a payload between line breaks for a request
\* that reached it
C10_Witness ==
  /\ exchange.made
  /\ exchange.invoked # << >>
  /\ exchange.upstream = UpstreamText(<< "\n" >> \o Stringify(ApprovedPayload) \o << "\n" >>)
  /\ exchange.response.status = 200
  /\ BodyField(exchange.body, "query") = JStr(<< "say", " ", "\"", "approved", "\"", "\n" >>)

\* the answer of the catch block
GenericFailure ==
  [status |-> 500,
   body |-> << "{", "\"", "error", "\"", ":", "\"",
               "Failed to process document. Please try again.", "\"", "}" >>]

\* C11: two requests whose handling fails with different errors get the
\* same answer, status 500 with the fixed generic message; the errors
\* differ in the log only.
C11_FailureAnswerHidesCause ==
  [][(/\ exchange.made
      /\ exchange.logged # << >>
      /\ exchange'.logged # << >>
      /\ exchange'.logged # exchange.logged)
     => /\ exchange'.response = exchange.response
        /\ exchange'.response = GenericFailure]_vars

\* a request whose body is not JSON has failed, its cause is in the log
C11_Witness ==
  /\ exchange.made
  /\ exchange.logged = << "SyntaxError" >>
  /\ exchange.response.status = 500

\* C12: nothing is retried.  A processQuery call sends one request when
\* its guard passes and none otherwise, and no later step sends a request
\* for it again; the endpoint invokes the model at most once for a
\* request, on success and on failure, and not at all when it answers 400.
C12_NothingRetried ==
  [][/\ Len(calls') \in {Len(calls), Len(calls) + 1}
     /\ \A c \in 1..Len(calls) : calls'[c].pc = "fetching" => calls'[c] = calls[c]
     /\ Len(calls') = Len(calls) + 1
        => (calls'[Len(calls')].pc = "fetching"
            <=> ~(Blank(currentQuery) \/ storedDocuments = << >>))
     /\ \A c \in 1..Len(calls') :
          calls'[c].pc = "responded"
          => /\ calls'[c].invoked <= 1
             /\ calls'[c].response.status = 400 => calls'[c].invoked = 0
     /\ exchange'.made
        => /\ Len(exchange'.invoked) <= 1
           /\ exchange'.response.status = 400 => exchange'.invoked = << >>]_vars

\* the one request of a query has been answered 500 after one invocation
\* of the model that threw
C12_Witness ==
  /\ Len(calls) = 1
  /\ calls[1].pc = "responded"
  /\ calls[1].response.status = 500
  /\ calls[1].invoked = 1

\* the blocks of the documents from the i-th on, a blank line before each
\* but the first
RECURSIVE BlocksFrom(_, _)
BlocksFrom(documents, i) ==
  IF i > Len(documents) THEN << >>
  ELSE (IF i > 1 THEN << "\n", "\n" >> ELSE << >>)
       \o << "Document:", " " >> \o Field(documents[i], "name").s
       \o << "\n" >> \o Field(documents[i], "content").s
       \o BlocksFrom(documents, i + 1)

\* C13: the body of a dispatched request is the JSON of an object whose
\* query is the entered query as it stands, untrimmed, and whose documents
\* is the blocks of the stored documents, each once, in the order of the
\* list, a blank line between them.
C13_RequestCarriesQueryAndBlocks ==
  [][(Len(calls') = Len(calls) + 1 /\ calls'[Len(calls')].pc = "fetching")
     => LET json == JSONparse(calls'[Len(calls')].request) IN
        /\ json.ok
        /\ json.v = JObj(<< << << "query" >>, JStr(currentQuery) >>,
                            << << "documents" >>,
                               JStr(BlocksFrom(storedDocuments, 1)) >> >>)]_vars

\* a query with a space before and a line break after it is in flight
\* with two stored documents
C13_Witness ==
  /\ Len(calls) = 1
  /\ calls[1].pc = "fetching"
  /\ calls[1].query = << " " >> \o KneeQuery \o << "\n" >>
  /\ Len(storedDocuments) = 2

\* the step adds the documents of the files of upload b, all of them, in
\* the order of the files, after the documents stored before
AppendsBatch(b) ==
  /\ Len(storedDocuments') = Len(storedDocuments) + Len(uploads[b].files)
  /\ SubSeq(storedDocuments', 1, Len(storedDocuments)) = storedDocuments
  /\ \A i \in 1..Len(uploads[b].files) :
       /\ Field(storedDocuments'[Len(storedDocuments) + i], "id") = JStr(uploads[b].ids[i])
       /\ Field(storedDocuments'[Len(storedDocuments) + i], "name")
            = JStr(uploads[b].files[i].name)

\* the read of a file of upload b ends with an error in this step
ReadFails(b) ==
  /\ Len(uploads') = Len(uploads)
  /\ ~uploads[b].failed
  /\ uploads'[b].failed

\* C14: the document list grows only by a whole batch, in one step, in
\* the order of the files and after the documents already stored; when the
\* processing of a file of a batch fails, no document of the batch is
\* added and the failure is reported.
C14_BatchAppendedWhole ==
  [][/\ Len(storedDocuments') > Len(storedDocuments)
        => \E b \in 1..Len(uploads) : AppendsBatch(b)
     /\ \A b \in 1..Len(uploads) :
          ReadFails(b) => /\ toast' = "Upload failed"
                          /\ storedDocuments' = storedDocuments]_vars

\* C15: no two documents of the stored list have the same id, whether
\* they come from one batch, from overlapping batches or from batches one
\* after the other.
C15_IdsUnique ==
  \A i, j \in 1..Len(storedDocuments) :
    Field(storedDocuments[i], "id") = Field(storedDocuments[j], "id") => i = j

\* C16: the document stored for an uploaded file, an empty file included,
\* has the text decoded from the file's bytes as its content and the
\* file's name as its name.
C16_ContentIsDecodedText ==
  [][\A b \in 1..Len(uploads) :
       AppendsBatch(b)
       => \A i \in 1..Len(uploads[b].files) :
            LET doc == storedDocuments'[Len(storedDocuments) + i] IN
            /\ Field(doc, "content") = JStr(Decode(uploads[b].files[i].bytes))
            /\ Field(doc, "name") = JStr(uploads[b].files[i].name)]_vars

\* the documents whose id is not id, in their order
Others(documents, id) == SelectSeq(documents, LAMBDA doc : Field(doc, "id") # JStr(id))

\* C17: a stored document keeps every field; it leaves the list only by
\* removeDocument with its own id or by clearAllData, and removeDocument(id)
\* removes the documents with that id and keeps the others in their order.
C17_DocumentsLeaveByOwnIdOrClear ==
  [][\/ /\ Len(storedDocuments') >= Len(storedDocuments)
        /\ SubSeq(storedDocuments', 1, Len(storedDocuments)) = storedDocuments
     \/ /\ toast' = "All data cleared"
        /\ storedDocuments' = << >>
     \/ /\ toast' = "Document removed"
        /\ \E i \in 1..Len(storedDocuments) :
             storedDocuments' = Others(storedDocuments, Field(storedDocuments[i], "id").s)]_vars

\* of two stored documents the first has been removed, the second is left
C17_Witness ==
  /\ toast = "Document removed"
  /\ Len(storedDocuments) = 1
  /\ Field(storedDocuments[1], "name") = JStr(QuotedFile.name)

\* C18: a round trip that ends with the success notification adds one
\* record to the history, after the records already there, which keep
\* their content and their order.
C18_RecordAppendedAfterOthers ==
  [][\A c \in 1..Len(calls) : \A fetched \in Fetched(c) :
       (/\ mounted
        /\ Settle(c, fetched)
        /\ toast' = "Query processed successfully")
       => /\ Len(queryHistory') = Len(queryHistory) + 1
          /\ SubSeq(queryHistory', 1, Len(queryHistory)) = queryHistory
          /\ Field(queryHistory'[Len(queryHistory')], "query") = JStr(calls[c].query)]_vars

\* the step leaves the records of the history as they are, or puts one
\* record in front of them
HistoryKept ==
  \/ queryHistory' = queryHistory
  \/ /\ Len(queryHistory') = Len(queryHistory) + 1
     /\ Tail(queryHistory') = queryHistory

\* C19 as stated: a record of the history is never changed, and records
\* leave the history only in the bulk clear, the step that also empties
\* the document list.
C19_HistoryShrinksOnlyByBulkClear ==
  [][\/ HistoryKept
     \/ /\ queryHistory' = << >>
        /\ storedDocuments' = << >>
        /\ toast' = "All data cleared"]_vars

\* C19, amended: a record of the history is never changed, and records
\* leave the history only when the whole history is emptied, by the bulk
\* clear, which also empties the document list, or by the Clear History
\* button, which leaves the document list as it is.
C19_HistoryShrinksOnlyByAClear ==
  [][\/ HistoryKept
     \/ /\ queryHistory' = << >>
        /\ storedDocuments' = << >>
        /\ toast' = "All data cleared"
     \/ /\ queryHistory' = << >>
        /\ storedDocuments' = storedDocuments
        /\ toast' = "History cleared"]_vars

\* Clear History has emptied the history of a settled query and the
\* documents are still stored
C19_Witness ==
  /\ toast = "History cleared"
  /\ queryHistory = << >>
  /\ Len(calls) = 1
  /\ calls[1] = Settled
  /\ storedDocuments # << >>

\* C20: when a query succeeds while another query of the same component
\* is or was in flight, its record is added to the records already in the
\* history, the other query's record among them, and currentResult is the
\* record of the answer that has just arrived.
C20_NeitherRecordLost ==
  [][\A c \in 1..Len(calls) : \A fetched \in Fetched(c) :
       (/\ mounted
        /\ Len(calls) >= 2
        /\ toast' = "Query processed successfully"
        /\ Settle(c, fetched))
       => /\ Tail(queryHistory') = queryHistory
          /\ Field(queryHistory'[1], "query") = JStr(calls[c].query)
          /\ \A carried \in PayloadBodies :
               fetched.body = carried[2]
               => Field(queryHistory'[1], "result") = carried[1]
          /\ currentResult' = queryHistory'[1]]_vars

\* two queries were in flight at once; the answer to the second has arrived
\* first and then the answer to the first: both records are in the
\* history and currentResult is the record of the first query
C20_Witness ==
  /\ Len(calls) = 2
  /\ calls[1] = Settled
  /\ calls[2] = Settled
  /\ Len(queryHistory) = 2
  /\ Field(queryHistory[1], "result") = ApprovedPayload
  /\ Field(queryHistory[2], "result") = ClarificationPayload
  /\ currentResult = queryHistory[1]

\* C21: every upload batch can complete: no read of a file ends in a
\* failure, and the step that appends the batch and deletes its progress
\* entries is available to every pending batch, so none stays pending.
C21_EveryBatchCompletes ==
  \A b \in 1..Len(uploads) :
    /\ ~uploads[b].failed
    /\ ENABLED UploadComplete(b, [i \in 1..Len(uploads[b].files) |-> << 20, 5 >>])

\* the calls whose request has not settled
InFlight == {c \in 1..Len(calls) : calls[c].pc # "settled"}

\* C22: with processQuery reached through the Process Query button, at
\* most one request is outstanding at any time; while it is, isProcessing
\* is true and the button is disabled.
C22_OneRequestFromTheButton ==
  /\ Cardinality(InFlight) <= 1
  /\ InFlight # {} => isProcessing /\ ProcessQueryDisabled

\* the first query has settled and the second, dispatched after it, is in
\* flight with a query in the input and documents in the list
C22_Witness ==
  /\ Len(calls) = 2
  /\ calls[1] = Settled
  /\ calls[2].pc = "fetching"
  /\ Trim(currentQuery) # << >>
  /\ storedDocuments # << >>

\* C23: the request of every dispatched query carries a query string and
\* a documents string that are not empty, and the endpoint's answer to it
\* never has status 400.
C23_ClientRequestsPassTheFieldCheck ==
  \A c \in InFlight :
    /\ BodyField(calls[c].request, "query").k = "str"
    /\ BodyField(calls[c].request, "query").s # << >>
    /\ BodyField(calls[c].request, "documents").k = "str"
    /\ BodyField(calls[c].request, "documents").s # << >>
    /\ calls[c].pc = "responded" => calls[c].response.status # 400

\* the endpoint has answered a dispatched query, and not with 400
C23_Witness ==
  /\ Len(calls) = 1
  /\ calls[1].pc = "responded"
  /\ calls[1].response.status = 200
  /\ calls[1].invoked = 1

\* C24: a processQuery call that shows the failure notification has set
\* none of queryHistory, currentResult, the active tab and the query
\* input, and a call that changes queryHistory shows the success
\* notification.
C24_OutcomesExclusive ==
  [][\A c \in 1..Len(calls) : \A fetched \in Fetched(c) :
       /\ (toast' = "Processing failed" /\ Settle(c, fetched))
          => /\ Outcome(fetched).thrown
             /\ UNCHANGED << queryHistory, currentResult, activeTab, currentQuery >>
       /\ (queryHistory' # queryHistory /\ Settle(c, fetched))
          => toast' = "Query processed successfully"]_vars

\* a slot that holds no element: the entry is absent or is the empty list
SlotEmpty(key) == localStorage[key] \in {NoItem, Item(<< "[", "]" >>)}

\* C25: after a bulk clear no record of a query dispatched before it and
\* no document of an upload started before it appears in the lists or in
\* the saved slots, also when the answer or the processing of the files
\* ends after the clear.  (At instant 1 all work was started before the
\* last clear.)
C25_ClearIsFinal ==
  now = 1 => /\ queryHistory = << >>
             /\ storedDocuments = << >>
             /\ SlotEmpty(HistoryKey)
             /\ SlotEmpty(DocumentsKey)

\* the list a slot holds
SavedList(key) == JSONparse(localStorage[key].value).v.items

C27_IsProcessingTracksTheRequest ==
  mounted => (isProcessing <=> InFlight # {})

\* a request has failed and settled: the failure notification is shown
\* and isProcessing is false again
C27_Witness ==
  /\ mounted
  /\ Len(calls) = 1
  /\ calls[1] = Settled
  /\ toast = "Processing failed"
  /\ ~isProcessing

\* C28: when a batch completes, its documents are added to the list as it
\* is then: documents removed while the batch was processed stay absent,
\* documents of a batch that completed meanwhile stay, and each document
\* of the completing batch is there once.
C28_OverlappingUpdatesKept ==
  [][\A b \in 1..Len(uploads) :
       (/\ mounted
        /\ toast' = "Documents uploaded successfully"
        /\ UploadComplete(b, [i \in 1..Len(uploads[b].files) |-> << 20, 5 >>]))
       => /\ AppendsBatch(b)
          /\ localStorage'[DocumentsKey] = Item(Stringify(JArr(storedDocuments')))]_vars

\* empty.txt was stored at instant 1 while the batch of policy.txt,
\* started at instant 0, was still being processed; both are in the list
C28_Witness ==
  /\ Len(storedDocuments) = 2
  /\ Field(storedDocuments[1], "name") = JStr(EmptyFile.name)
  /\ Field(storedDocuments[1], "uploadDate") = JStr(IsoString(1))
  /\ Field(storedDocuments[2], "name") = JStr(PolicyFile.name)
  /\ Field(storedDocuments[2], "id").s[2] = "0"

\* C29: currentResult is null or a record of queryHistory.
C29_CurrentResultInHistory ==
  \/ currentResult = JNull
  \/ \E i \in 1..Len(queryHistory) : queryHistory[i] = currentResult
\* C30: selectedDocument is null or a document of the stored document list.
C30_SelectedDocumentInList ==
  \/ selectedDocument = JNull
  \/ \E i \in 1..Len(storedDocuments) : storedDocuments[i] = selectedDocument

====
